---- MODULE Spec2Model ----
(***************************************************************************)
(* Olist e-commerce dashboard (src/dashboard/dashboard.py).                *)
(*                                                                         *)
(* The script is re-run from top to bottom on every widget interaction.    *)
(* The state that survives between runs is the cached dataset and the      *)
(* widget values; every run recomputes the filter window and the tables    *)
(* of the five tabs from them.  The csv_* variables are the files the      *)
(* loader found on disk; the other variables of the first block are the    *)
(* frames it returned.                                                     *)
(*                                                                         *)
(* Time is counted in units of 1/DayLen day since midnight of day 0.       *)
(* Quantile and equal-width bin edges are rationals; they are kept exact   *)
(* by scaling (by 5 for quantile edges, by 5000 for equal-width edges).    *)
(***************************************************************************)
EXTENDS Integers, Sequences, FiniteSets, TLC

VARIABLES csv_missing, csv_orders,
          page, orders, order_payments, order_items, products, customers,
          date_option, start_date, end_date, selected_category, selected_state,
          sales, rfm_orders, rfm_shown, rfm, payments, delivery, regional

vars == <<csv_missing, csv_orders,
          page, orders, order_payments, order_items, products, customers,
          date_option, start_date, end_date, selected_category, selected_state,
          sales, rfm_orders, rfm_shown, rfm, payments, delivery, regional>>

----------------------------------------------------------------------------
(* Bounds of the model *)

\* time units per day (2 = half days)
DayLen == 2

\* largest number of customers in a loaded dataset
MaxCust == 6

\* largest number of customers in a dataset of mixed order shapes
MaxMixed == 3

\* largest number of customers in a dataset with items and deliveries
MaxShop == 2

----------------------------------------------------------------------------
(* Generic helpers over finite sets and sequences of integers *)

Range(s) == {s[i] : i \in DOMAIN s}

SetMax(S) == CHOOSE x \in S : \A y \in S : y <= x

SetMin(S) == CHOOSE x \in S : \A y \in S : x <= y

\* the elements of a finite set of integers in ascending order
SortedSeq(S) ==
    [i \in 1..Cardinality(S) |->
        CHOOSE x \in S : Cardinality({y \in S : y < x}) = i - 1]

\* the values of a column in ascending order, duplicates kept
SortValues(xs) ==
    [k \in 1..Len(xs) |->
        CHOOSE v \in Range(xs) :
            /\ Cardinality({i \in DOMAIN xs : xs[i] < v}) < k
            /\ k <= Cardinality({i \in DOMAIN xs : xs[i] <= v})]

RECURSIVE SumSeq(_)
SumSeq(xs) == IF xs = <<>> THEN 0 ELSE Head(xs) + SumSeq(Tail(xs))

Abs(x) == IF x < 0 THEN -x ELSE x

----------------------------------------------------------------------------
(* Sidebar: the date window (lines 123-155) *)

\* a missing timestamp (NaT) of a parsed date column
NaT == -1

\* the timestamps of a date column that are present
present(ords) ==
    {ords[i].order_purchase_timestamp : i \in DOMAIN ords} \ {NaT}

\* Series.min() and Series.max() skip NaT; of no value at all they are NaT
min_date(ords) == IF present(ords) = {} THEN NaT ELSE SetMin(present(ords))

max_date(ords) == IF present(ords) = {} THEN NaT ELSE SetMax(present(ords))

\* variant: the two ends are put in order before comparing
in_window_unordered(ts, s, e) ==
    /\ ts # NaT /\ s # NaT /\ e # NaT
    /\ ts >= (IF s <= e THEN s ELSE e)
    /\ ts <= (IF s <= e THEN e ELSE s)

\* variant: strict comparisons, a window open at both ends
in_window_exclusive(ts, s, e) ==
    /\ ts # NaT /\ s # NaT /\ e # NaT
    /\ ts > s
    /\ ts < e

\* (ts >= start_date) & (ts <= end_date): a comparison with NaT is False
in_window(ts, s, e) ==
    /\ ts # NaT /\ s # NaT /\ e # NaT
    /\ ts >= s
    /\ ts <= e

\* timedelta(days=d) in time units
timedelta(d) == d * DayLen

\* variant: the last instant of that calendar day
to_datetime_end_of_day(day) == day * DayLen + (DayLen - 1)

\* pd.to_datetime(date): midnight at the start of that calendar day
to_datetime(day) == day * DayLen

\* selected_category / selected_state when the "All ..." entry is chosen
None == "None"

\* a missing string (NaN) of a text column
NaN == "NaN"

\* the texts of the model in the order sorted() and groupby() put them
Alphabet ==
    <<"RJ", "SP",
      "audio", "auto", "baby", "boleto", "books", "computers", "credit_card",
      "debit_card", "electronics", "fashion", "furniture", "garden", "health",
      "home", "toys", "voucher">>

sorted_list(S) == SelectSeq(Alphabet, LAMBDA x : x \in S)

\* lines 160-161: the English names of the products, NaN dropped
categories(prods) ==
    sorted_list({prods[i].product_category_name_english : i \in DOMAIN prods} \ {NaN})

\* line 173
states(custs) == sorted_list({custs[i].customer_state : i \in DOMAIN custs})

----------------------------------------------------------------------------
(* Float arithmetic and sorting *)

\* a / b on floats: 0/0 is NaN and x/0 is infinite, neither raises
divide(a, b) ==
    IF b # 0 THEN [kind |-> "number", num |-> a, den |-> b]
    ELSE IF a = 0 THEN [kind |-> "nan", num |-> 0, den |-> 0]
    ELSE [kind |-> "inf", num |-> a, den |-> 0]

\* the literal 0
zero == [kind |-> "number", num |-> 0, den |-> 1]

RECURSIVE Perms(_)
Perms(S) ==
    IF S = {} THEN {<<>>}
    ELSE UNION {{<<x>> \o p : p \in Perms(S \ {x})} : x \in S}

\* sort_values(col, ascending=False) with the default kind ('quicksort'): the
\* row positions by descending value.  The default sort is not stable, so
\* rows of equal value may come out in any order.
RECURSIVE argsort_descending(_, _)
argsort_descending(vals, I) ==
    IF I = {} THEN {<<>>}
    ELSE LET top == SetMax({vals[i] : i \in I})
             ties == {i \in I : vals[i] = top}
         IN  {p \o rest : p \in Perms(ties),
                          rest \in argsort_descending(vals, I \ ties)}

\* .head(n)
head(xs, n) == SubSeq(xs, 1, IF Len(xs) < n THEN Len(xs) ELSE n)

----------------------------------------------------------------------------
(* Tab 1: sales and best-selling categories (lines 186-283) *)

\* lines 191-192, and the same expression at 558-559
filtered_orders(ords, s, e) ==
    SelectSeq(ords, LAMBDA o : in_window(o.order_purchase_timestamp, s, e))

\* pd.merge(left[['order_id']], order_items, on='order_id', how='inner')
RECURSIVE merge_items(_, _)
merge_items(left, items) ==
    IF left = <<>> THEN <<>>
    ELSE SelectSeq(items, LAMBDA it : it.order_id = Head(left).order_id)
         \o merge_items(Tail(left), items)

\* line 205: the products whose English category name is the selected one
product_ids(prods, category) ==
    {prods[i].product_id :
        i \in {j \in DOMAIN prods : prods[j].product_category_name_english = category}}

\* lines 195-206
filtered_items(ords, items, prods, s, e, category) ==
    LET merged == merge_items(filtered_orders(ords, s, e), items)
    IN  IF category # None
        THEN SelectSeq(merged, LAMBDA it : it.product_id \in product_ids(prods, category))
        ELSE merged

\* pd.merge(items, products, on='product_id', how='inner')
RECURSIVE merge_products(_, _)
merge_products(items, prods) ==
    IF items = <<>> THEN <<>>
    ELSE LET it == Head(items)
             m == SelectSeq(prods, LAMBDA p : p.product_id = it.product_id)
         IN  [i \in 1..Len(m) |->
                 [order_id |-> it.order_id,
                  price |-> it.price,
                  category |-> m[i].product_category_name_english]]
             \o merge_products(Tail(items), prods)

\* groupby(cat_column).agg({'price': 'sum', 'order_id': 'nunique'}): one row
\* per category in sorted order, rows of a missing category dropped
category_sales(rows) ==
    LET keys == sorted_list({rows[i].category : i \in DOMAIN rows} \ {NaN})
    IN  [k \in DOMAIN keys |->
            LET g == SelectSeq(rows, LAMBDA r : r.category = keys[k])
            IN  [category |-> keys[k],
                 price |-> SumSeq([i \in DOMAIN g |-> g[i].price]),
                 order_id |-> Cardinality({g[i].order_id : i \in DOMAIN g})]]

\* sort_values('price', ascending=False).head(10): the tables a run can show
top_categories(summary) ==
    {head([k \in DOMAIN ix |-> summary[ix[k]]], 10) :
        ix \in argsort_descending([i \in DOMAIN summary |-> summary[i].price],
                                  DOMAIN summary)}

\* the calendar year of time 0: timestamps count from its first of January
EpochYear == 2017

is_leap(y) == (y % 4 = 0 /\ y % 100 # 0) \/ y % 400 = 0

days_in_month(y, m) ==
    IF m = 2 THEN (IF is_leap(y) THEN 29 ELSE 28)
    ELSE IF m \in {4, 6, 9, 11} THEN 30 ELSE 31

\* the year-month of the day that lies d days after the first of month m of
\* year y, as the number yyyymm (the string 'yyyy-mm' sorts the same way)
RECURSIVE period_from(_, _, _)
period_from(y, m, d) ==
    IF d < days_in_month(y, m) THEN y * 100 + m
    ELSE IF m = 12 THEN period_from(y + 1, 1, d - 31)
    ELSE period_from(y, m + 1, d - days_in_month(y, m))

\* variant: the month name alone, without the year
to_period_month_of_year(ts) == period_from(EpochYear, 1, ts \div DayLen) % 100

\* line 234: .dt.to_period('M').astype(str)
to_period(ts) == period_from(EpochYear, 1, ts \div DayLen)

\* lines 226-234: pd.merge(filtered_orders[['order_id', 'order_purchase_timestamp']],
\* filtered_items[['order_id', 'price']], on='order_id', how='inner'), with
\* the month column
RECURSIVE sales_over_time(_, _)
sales_over_time(left, items) ==
    IF left = <<>> THEN <<>>
    ELSE LET m == SelectSeq(items, LAMBDA it : it.order_id = Head(left).order_id)
         IN  [i \in 1..Len(m) |->
                 [order_id |-> m[i].order_id,
                  price |-> m[i].price,
                  month |-> to_period(Head(left).order_purchase_timestamp)]]
             \o sales_over_time(Tail(left), items)

\* line 235: groupby(month)['price'].sum().reset_index(), months in order
monthly_sales(rows) ==
    LET keys == SortedSeq({rows[i].month : i \in DOMAIN rows})
    IN  [k \in DOMAIN keys |->
            LET g == SelectSeq(rows, LAMBDA r : r.month = keys[k])
            IN  [month |-> keys[k],
                 price |-> SumSeq([i \in DOMAIN g |-> g[i].price])]]

\* the body of tab 1 up to the ranking; the two charts (lines 223-310) are
\* drawn whatever the filtered frames hold
tab1(ords, items, prods, s, e, category) ==
    LET fi == filtered_items(ords, items, prods, s, e, category)
        total_orders == Cardinality({fi[i].order_id : i \in DOMAIN fi})
        total_sales == SumSeq([i \in DOMAIN fi |-> fi[i].price])
    IN  [shown |-> "charts",
         filtered_orders |-> filtered_orders(ords, s, e),
         filtered_items |-> fi,
         total_orders |-> total_orders,
         total_sales |-> total_sales,
         monthly_sales |-> monthly_sales(sales_over_time(filtered_orders(ords, s, e), fi)),
         avg_order_value |->
             IF total_orders > 0 THEN divide(total_sales, total_orders) ELSE zero,
         category_sales |-> category_sales(merge_products(fi, prods))]

----------------------------------------------------------------------------
(* Tab 2: RFM inputs (lines 328-359) *)

\* variant: the status predicate left out
filtered_orders_rfm_any_status(ords, s, e) ==
    SelectSeq(ords, LAMBDA o : in_window(o.order_purchase_timestamp, s, e))

filtered_orders_rfm(ords, s, e) ==
    SelectSeq(ords, LAMBDA o : /\ in_window(o.order_purchase_timestamp, s, e)
                               /\ o.order_status = "delivered")

\* pd.merge(left, right, on='order_id', how='inner'): one row per pair of a
\* left row and a right row with the same key, in the order of the left rows
RECURSIVE merge(_, _)
merge(left, right) ==
    IF left = <<>> THEN <<>>
    ELSE LET l == Head(left)
             m == SelectSeq(right, LAMBDA p : p.order_id = l.order_id)
         IN  [i \in 1..Len(m) |->
                 [order_id |-> l.order_id,
                  customer_id |-> l.customer_id,
                  order_purchase_timestamp |-> l.order_purchase_timestamp,
                  payment_value |-> m[i].payment_value]]
             \o merge(Tail(left), right)

orders_with_payments(ords, pays, s, e) ==
    merge(filtered_orders_rfm(ords, s, e), pays)

\* groupby('customer_id'): the group keys, sorted
group_keys(owp) == SortedSeq({owp[i].customer_id : i \in DOMAIN owp})

group(owp, c) == SelectSeq(owp, LAMBDA row : row.customer_id = c)

\* variant: days since the customer's first purchase
recency_first_purchase(owp, c, e) ==
    LET first == SetMin({owp[i].order_purchase_timestamp :
                            i \in {j \in DOMAIN owp : owp[j].customer_id = c}})
    IN  (e - first) \div DayLen

\* (end_date - max(order_purchase_timestamp)).dt.days
recency(owp, c, e) ==
    LET last == SetMax({owp[i].order_purchase_timestamp :
                           i \in {j \in DOMAIN owp : owp[j].customer_id = c}})
    IN  (e - last) \div DayLen

\* variant: count() instead of nunique()
frequency_count_rows(owp, c) ==
    Cardinality({j \in DOMAIN owp : owp[j].customer_id = c})

\* groupby('customer_id')['order_id'].nunique()
frequency(owp, c) ==
    Cardinality({owp[i].order_id :
                    i \in {j \in DOMAIN owp : owp[j].customer_id = c}})

\* groupby('customer_id')['payment_value'].sum()
monetary(owp, c) ==
    LET g == group(owp, c)
    IN  SumSeq([i \in 1..Len(g) |-> g[i].payment_value])

\* the merged table of the three metrics, one row per customer
rfm_metrics(owp, e) ==
    LET keys == group_keys(owp)
    IN  [i \in 1..Len(keys) |->
            [customer_id |-> keys[i],
             recency |-> recency(owp, keys[i], e),
             frequency |-> frequency(owp, keys[i]),
             monetary |-> monetary(owp, keys[i])]]

----------------------------------------------------------------------------
(* Tab 2: score assignment (lines 379-420) *)

\* a missing value (NaN) in a score column
NA == -1

nunique(xs) == Cardinality(Range(xs))

\* Series.rank(method='first'): ties get ranks in row order
rank_first(xs) ==
    [i \in DOMAIN xs |->
        1 + Cardinality({j \in DOMAIN xs : xs[j] < xs[i]})
          + Cardinality({j \in DOMAIN xs : j < i /\ xs[j] = xs[i]})]

\* 5 * (the k/5 quantile of the column), linear interpolation
quantile5(sorted, k) ==
    LET pos == k * (Len(sorted) - 1)
        f == pos \div 5
        r == pos % 5
    IN  IF r = 0 THEN 5 * sorted[f + 1]
        ELSE 5 * sorted[f + 1] + r * (sorted[f + 2] - sorted[f + 1])

\* _bins_to_cuts(..., duplicates='drop'): xs and bins on the same scale
bins_to_cuts(xs, bins0, labels, include_lowest) ==
    LET unique_bins == SortedSeq(Range(bins0))
        bins == IF Len(unique_bins) < Len(bins0) /\ Len(bins0) # 2
                THEN unique_bins ELSE bins0
    IN  IF Len(labels) # Len(bins) - 1
        THEN [error |-> TRUE, values |-> <<>>]
        ELSE [error |-> FALSE,
              values |->
                [i \in DOMAIN xs |->
                    LET id0 == Cardinality({k \in DOMAIN bins : bins[k] < xs[i]})
                        id == IF include_lowest /\ xs[i] = bins[1] THEN 1 ELSE id0
                    IN  IF id = Len(bins) \/ id = 0 THEN NA ELSE labels[id]]]

\* variant: the lowest edge is not included in the first bin
qcut_exclusive_lowest(xs, labels) ==
    LET sorted == SortValues(xs)
        bins == [k \in 1..6 |-> quantile5(sorted, k - 1)]
    IN  bins_to_cuts([i \in DOMAIN xs |-> 5 * xs[i]], bins, labels, FALSE)

\* pd.qcut(xs, q=5, labels=labels, duplicates='drop')
qcut(xs, labels) ==
    LET sorted == SortValues(xs)
        bins == [k \in 1..6 |-> quantile5(sorted, k - 1)]
    IN  bins_to_cuts([i \in DOMAIN xs |-> 5 * xs[i]], bins, labels, TRUE)

\* 5000 * (the edges of pd.cut(xs, bins=5)): equal width over [min, max],
\* the lowest edge moved down by 0.1% of the range
nbins_to_bins(xs) ==
    LET mn == SetMin(Range(xs))
        mx == SetMax(Range(xs))
    IN  IF mn = mx
        THEN LET lo == 5000 * mn - (IF mn # 0 THEN 5 * Abs(mn) ELSE 5)
                 hi == 5000 * mx + (IF mx # 0 THEN 5 * Abs(mx) ELSE 5)
             IN  [k \in 1..6 |-> lo + (k - 1) * ((hi - lo) \div 5)]
        ELSE [k \in 1..6 |->
                 IF k = 1 THEN 5000 * mn - 5 * (mx - mn)
                 ELSE 5000 * mn + (k - 1) * 1000 * (mx - mn)]

\* pd.cut(xs, bins=5, labels=labels, duplicates='drop')
cut(xs, labels) ==
    bins_to_cuts([i \in DOMAIN xs |-> 5000 * xs[i]], nbins_to_bins(xs), labels, FALSE)

\* variant: labels in ascending order
r_score_ascending(rec) ==
    IF nunique(rec) < 5 THEN [error |-> FALSE, values |-> [i \in DOMAIN rec |-> 3]]
    ELSE LET q == qcut(rec, <<1, 2, 3, 4, 5>>)
         IN  IF q.error THEN cut(rec, <<1, 2, 3, 4, 5>>) ELSE q

\* variant: no except branch
r_score_no_fallback(rec) ==
    IF nunique(rec) < 5 THEN [error |-> FALSE, values |-> [i \in DOMAIN rec |-> 3]]
    ELSE qcut(rec, <<5, 4, 3, 2, 1>>)

\* variant: the guard tests the number of rows, not of distinct values
r_score_by_population_size(rec) ==
    IF Len(rec) < 5 THEN [error |-> FALSE, values |-> [i \in DOMAIN rec |-> 3]]
    ELSE LET q == qcut(rec, <<5, 4, 3, 2, 1>>)
         IN  IF q.error THEN cut(rec, <<5, 4, 3, 2, 1>>) ELSE q

\* lines 380-387
r_score(rec) ==
    IF nunique(rec) < 5 THEN [error |-> FALSE, values |-> [i \in DOMAIN rec |-> 3]]
    ELSE LET q == qcut(rec, <<5, 4, 3, 2, 1>>)
         IN  IF q.error THEN cut(rec, <<5, 4, 3, 2, 1>>) ELSE q

\* variant: the guard is nunique() < 4
f_score_distinct4(freq) ==
    IF nunique(freq) < 4 THEN [error |-> FALSE, values |-> [i \in DOMAIN freq |-> 3]]
    ELSE LET q == qcut(rank_first(freq), <<1, 2, 3, 4, 5>>)
         IN  IF q.error THEN cut(freq, <<1, 2, 3, 4, 5>>) ELSE q

\* lines 390-396
f_score(freq) ==
    IF nunique(freq) < 5 THEN [error |-> FALSE, values |-> [i \in DOMAIN freq |-> 3]]
    ELSE LET q == qcut(rank_first(freq), <<1, 2, 3, 4, 5>>)
         IN  IF q.error THEN cut(freq, <<1, 2, 3, 4, 5>>) ELSE q

\* variant: the raw values are binned, without the rank transform
m_score_unranked(mon) ==
    IF nunique(mon) < 5 THEN [error |-> FALSE, values |-> [i \in DOMAIN mon |-> 3]]
    ELSE LET q == qcut(mon, <<1, 2, 3, 4, 5>>)
         IN  IF q.error THEN cut(mon, <<1, 2, 3, 4, 5>>) ELSE q

\* lines 399-405
m_score(mon) ==
    IF nunique(mon) < 5 THEN [error |-> FALSE, values |-> [i \in DOMAIN mon |-> 3]]
    ELSE LET q == qcut(rank_first(mon), <<1, 2, 3, 4, 5>>)
         IN  IF q.error THEN cut(mon, <<1, 2, 3, 4, 5>>) ELSE q

\* line 412: a missing score makes the sum missing
rfm_score(r, f, m) == IF r = NA \/ f = NA \/ m = NA THEN NA ELSE r + f + m

\* variant: right=False, intervals closed on the left
segment_left_closed(score) ==
    CASE score = NA -> "NaN"
      [] score \in 0..3 -> "Bronze"
      [] score \in 4..7 -> "Silver"
      [] score \in 8..11 -> "Gold"
      [] score \in 12..14 -> "Platinum"
      [] OTHER -> "NaN"

\* lines 415-420: pd.cut(rfm_score, bins=[0, 4, 8, 12, 15], include_lowest=True)
segment(score) ==
    IF score = NA THEN "NaN"
    ELSE LET c == bins_to_cuts(<<score>>, <<0, 4, 8, 12, 15>>, <<1, 2, 3, 4>>, TRUE).values[1]
         IN  CASE c = 1 -> "Bronze"
               [] c = 2 -> "Silver"
               [] c = 3 -> "Gold"
               [] c = 4 -> "Platinum"
               [] OTHER -> "NaN"

\* variant: the table is built without the len(orders_with_payments) > 0 guard
tab2_unguarded(ords, pays, s, e) ==
    LET owp == orders_with_payments(ords, pays, s, e)
        t == rfm_metrics(owp, e)
        rs == r_score([i \in DOMAIN t |-> t[i].recency])
        fs == f_score([i \in DOMAIN t |-> t[i].frequency])
        ms == m_score([i \in DOMAIN t |-> t[i].monetary])
    IN  IF rs.error \/ fs.error \/ ms.error
        THEN [shown |-> "exception", rfm |-> <<>>]
        ELSE [shown |-> "segments",
              rfm |->
                [i \in DOMAIN t |->
                   LET total == rfm_score(rs.values[i], fs.values[i], ms.values[i])
                   IN  [customer_id |-> t[i].customer_id,
                        recency |-> t[i].recency,
                        frequency |-> t[i].frequency,
                        monetary |-> t[i].monetary,
                        r_score |-> rs.values[i],
                        f_score |-> fs.values[i],
                        m_score |-> ms.values[i],
                        rfm_score |-> total,
                        segment |-> segment(total)]]]

\* the body of tab 2: what the run shows and the RFM table it builds
tab2(ords, pays, s, e) ==
    LET owp == orders_with_payments(ords, pays, s, e)
    IN  IF Len(owp) > 0
        THEN LET t == rfm_metrics(owp, e)
                 rs == r_score([i \in DOMAIN t |-> t[i].recency])
                 fs == f_score([i \in DOMAIN t |-> t[i].frequency])
                 ms == m_score([i \in DOMAIN t |-> t[i].monetary])
             IN  IF rs.error \/ fs.error \/ ms.error
                 THEN [shown |-> "exception", rfm |-> <<>>]
                 ELSE [shown |-> "segments",
                       rfm |->
                         [i \in DOMAIN t |->
                            LET total == rfm_score(rs.values[i], fs.values[i], ms.values[i])
                            IN  [customer_id |-> t[i].customer_id,
                                 recency |-> t[i].recency,
                                 frequency |-> t[i].frequency,
                                 monetary |-> t[i].monetary,
                                 r_score |-> rs.values[i],
                                 f_score |-> fs.values[i],
                                 m_score |-> ms.values[i],
                                 rfm_score |-> total,
                                 segment |-> segment(total)]]]
        ELSE [shown |-> "warning", rfm |-> <<>>]

----------------------------------------------------------------------------
(* Tab 3: payment methods (lines 555-609) *)

\* pd.merge(left[['order_id']], order_payments, on='order_id', how='inner')
RECURSIVE merge_payments(_, _)
merge_payments(left, pays) ==
    IF left = <<>> THEN <<>>
    ELSE SelectSeq(pays, LAMBDA p : p.order_id = Head(left).order_id)
         \o merge_payments(Tail(left), pays)

\* groupby('payment_type').agg({'payment_value': 'sum', 'order_id': 'nunique'})
payment_summary(rows) ==
    LET keys == sorted_list({rows[i].payment_type : i \in DOMAIN rows})
    IN  [k \in DOMAIN keys |->
            LET g == SelectSeq(rows, LAMBDA r : r.payment_type = keys[k])
            IN  [payment_type |-> keys[k],
                 total_value |-> SumSeq([i \in DOMAIN g |-> g[i].payment_value]),
                 order_count |-> Cardinality({g[i].order_id : i \in DOMAIN g})]]

\* line 579: total_value / total_value.sum() * 100
percentage(summary, k) ==
    divide(summary[k].total_value * 100,
           SumSeq([i \in DOMAIN summary |-> summary[i].total_value]))

\* line 609: total_value / order_count
avg_value(summary, k) == divide(summary[k].total_value, summary[k].order_count)

\* the pie chart and the table (lines 582-614) are drawn whatever the
\* summary holds
tab3(ords, pays, s, e) ==
    LET fo == filtered_orders(ords, s, e)
        summary == payment_summary(merge_payments(fo, pays))
    IN  [shown |-> "charts",
         filtered_orders_payment |-> fo,
         payment_summary |->
             [k \in DOMAIN summary |->
                 [payment_type |-> summary[k].payment_type,
                  total_value |-> summary[k].total_value,
                  order_count |-> summary[k].order_count,
                  percentage |-> percentage(summary, k)]],
         display_stats |->
             [k \in DOMAIN summary |->
                 [payment_type |-> summary[k].payment_type,
                  order_count |-> summary[k].order_count,
                  avg_value |-> avg_value(summary, k)]]]

----------------------------------------------------------------------------
(* Tab 4: delivery performance (lines 700-761) *)

\* lines 702-706
delivery_orders(ords, s, e) ==
    SelectSeq(ords, LAMBDA o : /\ in_window(o.order_purchase_timestamp, s, e)
                               /\ o.order_status = "delivered")

\* line 709
dropna(rows) ==
    SelectSeq(rows, LAMBDA o : /\ o.order_delivered_customer_date # NaT
                               /\ o.order_estimated_delivery_date # NaT)

\* lines 713-714: (delivered - estimated).dt.days
delivery_difference(o) ==
    (o.order_delivered_customer_date - o.order_estimated_delivery_date) \div DayLen

status_order == <<"Very Early", "Early", "On Time", "Late", "Very Late">>

\* the finite edges of bins=[-inf, -3, -1, 0, 2, inf]
delivery_edges == <<-3, -1, 0, 2>>

\* variant: right=False, intervals closed on the left
delivery_status_left_closed(d) ==
    status_order[1 + Cardinality({k \in DOMAIN delivery_edges : delivery_edges[k] <= d})]

\* lines 741-745: pd.cut with right-closed intervals; the bin of d is the
\* number of edges below d
delivery_status(d) ==
    status_order[1 + Cardinality({k \in DOMAIN delivery_edges : delivery_edges[k] < d})]

\* variant: an order counts as on time only when it came before the estimate
on_time_percentage_strict(rows) ==
    divide(100 * Cardinality({i \in DOMAIN rows : rows[i].delivery_difference < 0}),
           Len(rows))

\* line 735: (delivery_difference <= 0).mean() * 100
on_time_percentage(rows) ==
    divide(100 * Cardinality({i \in DOMAIN rows : rows[i].delivery_difference <= 0}),
           Len(rows))

tab4(ords, s, e) ==
    LET fo == delivery_orders(ords, s, e)
        dd == dropna(fo)
        rows == [i \in DOMAIN dd |->
                    [order_id |-> dd[i].order_id,
                     delivery_difference |-> delivery_difference(dd[i]),
                     delivery_status |-> delivery_status(delivery_difference(dd[i]))]]
    IN  IF Len(dd) > 0
        THEN [shown |-> "charts",
              filtered |-> fo,
              delivery_data |-> rows,
              on_time_percentage |-> on_time_percentage(rows),
              delivery_summary |->
                  [k \in DOMAIN status_order |->
                      [delivery_status |-> status_order[k],
                       count |-> Cardinality({i \in DOMAIN rows :
                                     rows[i].delivery_status = status_order[k]})]]]
        ELSE [shown |-> "warning", filtered |-> fo,
              delivery_data |-> <<>>, on_time_percentage |-> None,
              delivery_summary |-> <<>>]

----------------------------------------------------------------------------
(* Tab 5: top categories of a region (lines 975-1017) *)

\* lines 978-988
state_orders(ords, custs, s, e, state) ==
    LET state_customers ==
            {custs[i].customer_id :
                i \in {j \in DOMAIN custs : custs[j].customer_state = state}}
        of_state == IF state # None
                    THEN SelectSeq(ords, LAMBDA o : o.customer_id \in state_customers)
                    ELSE ords
    IN  SelectSeq(of_state, LAMBDA o : in_window(o.order_purchase_timestamp, s, e))

\* lines 1008-1014
category_summary(rows) ==
    LET cs == category_sales(rows)
    IN  [k \in DOMAIN cs |->
            [category |-> cs[k].category,
             total_sales |-> cs[k].price,
             order_count |-> cs[k].order_id]]

\* line 1017: sort_values('total_sales', ascending=False).head(5)
top_categories_of_state(summary) ==
    {head([k \in DOMAIN ix |-> summary[ix[k]]], 5) :
        ix \in argsort_descending([i \in DOMAIN summary |-> summary[i].total_sales],
                                  DOMAIN summary)}

\* the bar chart of the ranking (lines 1019-1033) is drawn whatever the
\* summary holds
tab5(ords, items, prods, custs, s, e, state) ==
    LET so == state_orders(ords, custs, s, e, state)
    IN  [shown |-> "charts",
         state_orders |-> so,
         category_summary |->
             category_summary(merge_products(merge_items(so, items), prods))]

----------------------------------------------------------------------------
(* Loading (lines 19-96) *)

FileNames ==
    {"customers_dataset.csv", "order_items_dataset.csv", "order_payments_dataset.csv",
     "order_reviews_dataset.csv", "orders_dataset.csv",
     "product_category_name_translation.csv", "products_dataset.csv",
     "sellers_dataset.csv"}

\* line 62
orders_col ==
    <<"order_purchase_timestamp", "order_approved_at", "order_delivered_carrier_date",
      "order_delivered_customer_date", "order_estimated_delivery_date">>

\* a cell of a date column of orders_dataset.csv: the text of a timestamp, an
\* empty cell, or a text that is no timestamp
Cell(t) == IF t = NaT THEN [kind |-> "empty", at |-> 0] ELSE [kind |-> "timestamp", at |-> t]

Garbled == [kind |-> "text", at |-> 0]

\* line 66: pd.to_datetime(column) with the default errors='raise'
raises(csv) ==
    \E i \in DOMAIN csv : \E k \in DOMAIN orders_col : csv[i][orders_col[k]].kind = "text"

\* the parsed date columns: an empty cell becomes NaT
to_datetime_column(csv) ==
    [i \in DOMAIN csv |->
        [f \in DOMAIN csv[i] |->
            IF \E k \in DOMAIN orders_col : orders_col[k] = f
            THEN (IF csv[i][f].kind = "empty" THEN NaT ELSE csv[i][f].at)
            ELSE csv[i][f]]]

\* variant: a file that does not resolve is read as an empty frame
load_processed_data_lenient(input) ==
    IF raises(input.csv_orders)
    THEN [loaded |-> FALSE]
    ELSE [loaded |-> TRUE,
          orders |-> to_datetime_column(input.csv_orders),
          order_payments |-> input.order_payments,
          order_items |-> input.order_items,
          products |-> input.products,
          customers |-> input.customers]

\* lines 20-87: the frames, or None when reading or parsing raised
load_processed_data(input) ==
    IF input.missing # {} \/ raises(input.csv_orders)
    THEN [loaded |-> FALSE]
    ELSE [loaded |-> TRUE,
          orders |-> to_datetime_column(input.csv_orders),
          order_payments |-> input.order_payments,
          order_items |-> input.order_items,
          products |-> input.products,
          customers |-> input.customers]

----------------------------------------------------------------------------
(* The datasets the model loads *)

At(day, part) == day * DayLen + part

\* an order of a customer profile: status, purchase time, payment rows
\* <<type, value>>, item rows <<product, price>>, delivery and estimate
ShopOrder(st, ts, pays, items, delivered, estimated) ==
    [st |-> st, ts |-> ts, pays |-> pays, items |-> items,
     delivered |-> delivered, estimated |-> estimated]

\* an order paid by card, without item rows and not yet dated for delivery
Order(st, day, part, pv) ==
    ShopOrder(st, At(day, part), [k \in DOMAIN pv |-> <<"credit_card", pv[k]>>],
              <<>>, NaT, NaT)

\* A customer profile is the list of that customer's orders: status, purchase
\* time and the values of the order's payment rows.
WideProfiles ==
    << <<Order("delivered", 0, 0, <<1>>)>>,
       <<Order("delivered", 200, 0, <<20>>), Order("delivered", 200, 0, <<20>>)>>,
       <<Order("delivered", 400, 0, <<2>>), Order("delivered", 400, 0, <<2>>),
         Order("delivered", 400, 0, <<2>>), Order("delivered", 400, 0, <<2>>)>>,
       <<Order("delivered", 401, 0, <<5>>), Order("delivered", 401, 0, <<5>>),
         Order("delivered", 401, 0, <<5>>)>>,
       <<Order("delivered", 401, 1, <<40>>)>>,
       <<Order("delivered", 403, 0, <<10>>), Order("delivered", 403, 0, <<10>>),
         Order("delivered", 403, 0, <<10>>), Order("delivered", 403, 0, <<10>>),
         Order("delivered", 403, 0, <<10>>)>> >>

MixedProfiles ==
    << <<Order("canceled", 402, 0, <<7>>)>>,
       <<Order("delivered", 401, 0, <<>>)>>,
       <<Order("delivered", 400, 1, <<3, 4>>), Order("shipped", 402, 1, <<9>>)>>,
       <<Order("delivered", 402, 1, <<0>>), Order("delivered", 200, 0, <<6>>)>>,
       <<Order("delivered", 200, 1, <<5>>), Order("delivered", 402, 0, <<>>)>>,
       <<Order("delivered", 0, 0, <<100>>)>>,
       <<Order("delivered", 403, 0, <<10>>), Order("delivered", 401, 1, <<2, 2>>)>> >>

\* the products table after the left merge with the translation table;
\* 13 and 14 have no translation, and the native name of 14 is the English
\* name of 12
Catalog ==
    <<[product_id |-> 1, product_category_name |-> "audio", product_category_name_english |-> "audio"],
      [product_id |-> 2, product_category_name |-> "automotivo", product_category_name_english |-> "auto"],
      [product_id |-> 3, product_category_name |-> "bebes", product_category_name_english |-> "baby"],
      [product_id |-> 4, product_category_name |-> "livros", product_category_name_english |-> "books"],
      [product_id |-> 5, product_category_name |-> "informatica", product_category_name_english |-> "computers"],
      [product_id |-> 6, product_category_name |-> "eletronicos", product_category_name_english |-> "electronics"],
      [product_id |-> 7, product_category_name |-> "moda", product_category_name_english |-> "fashion"],
      [product_id |-> 8, product_category_name |-> "moveis", product_category_name_english |-> "furniture"],
      [product_id |-> 9, product_category_name |-> "jardim", product_category_name_english |-> "garden"],
      [product_id |-> 10, product_category_name |-> "saude", product_category_name_english |-> "health"],
      [product_id |-> 11, product_category_name |-> "casa", product_category_name_english |-> "home"],
      [product_id |-> 12, product_category_name |-> "brinquedos", product_category_name_english |-> "toys"],
      [product_id |-> 13, product_category_name |-> "pc_gamer", product_category_name_english |-> NaN],
      [product_id |-> 14, product_category_name |-> "toys", product_category_name_english |-> NaN]>>

\* customer profiles with a home state, items, payment types and deliveries
ShopProfiles ==
    << [state |-> "SP", orders |->
          <<ShopOrder("delivered", At(200, 0), <<<<"credit_card", 0>>>>, <<<<12, 30>>>>,
                      At(210, 0), At(213, 0)),
            ShopOrder("delivered", At(402, 1), <<<<"boleto", 50>>>>, <<<<1, 20>>, <<2, 20>>>>,
                      At(405, 0), At(405, 1))>>],
       [state |-> "RJ", orders |->
          <<ShopOrder("shipped", At(401, 0), <<<<"voucher", 0>>, <<"credit_card", 10>>>>,
                      <<<<14, 5>>>>, NaT, At(410, 0))>>],
       [state |-> "RJ", orders |->
          <<ShopOrder("delivered", At(402, 0), <<<<"voucher", 0>>>>, <<<<13, 8>>, <<12, 8>>>>,
                      At(410, 1), At(410, 0))>>],
       [state |-> "SP", orders |->
          <<ShopOrder("delivered", At(403, 0), <<<<"debit_card", 15>>>>, <<<<3, 7>>>>,
                      At(415, 0), At(413, 0)),
            ShopOrder("delivered", At(0, 0), <<<<"credit_card", 4>>>>, <<<<2, 20>>>>,
                      At(10, 0), At(7, 0))>>],
       [state |-> "SP", orders |->
          <<ShopOrder("delivered", At(401, 1), <<>>, <<>>, At(404, 0), At(406, 0)),
            ShopOrder("delivered", At(402, 0), <<>>, <<>>, At(409, 0), At(413, 0)),
            ShopOrder("delivered", At(200, 1), <<<<"voucher", 0>>>>, <<>>, At(211, 0), At(210, 0)),
            ShopOrder("delivered", At(402, 0), <<>>, <<>>, At(406, 0), At(406, 0))>>] >>

\* a customer whose one order holds an item of each of twelve categories, a
\* customer of two items, and one who bought in February of two years
BulkProfiles ==
    << [state |-> "SP", orders |->
          <<ShopOrder("delivered", At(402, 0), <<<<"credit_card", 88>>>>,
                      <<<<1, 12>>, <<2, 11>>, <<3, 10>>, <<4, 9>>, <<5, 8>>, <<6, 8>>,
                        <<7, 6>>, <<8, 5>>, <<9, 4>>, <<10, 3>>, <<11, 3>>, <<12, 2>>>>,
                      At(410, 0), At(412, 0))>>],
       [state |-> "RJ", orders |->
          <<ShopOrder("delivered", At(200, 0), <<<<"boleto", 9>>>>, <<<<12, 1>>, <<9, 1>>>>,
                      At(205, 0), At(204, 0))>>],
       [state |-> "RJ", orders |->
          <<ShopOrder("delivered", At(36, 0), <<<<"boleto", 6>>>>, <<<<4, 6>>>>,
                      At(40, 0), At(44, 0)),
            ShopOrder("delivered", At(402, 1), <<<<"credit_card", 16>>>>,
                      <<<<4, 9>>, <<5, 7>>>>, At(409, 1), At(409, 0))>>] >>

\* the populations of n customers over a list of profiles; the customers are
\* numbered in non-decreasing profile order
Populations(profiles, n) ==
    {p \in [1..n -> DOMAIN profiles] : \A i \in 1..(n - 1) : p[i] <= p[i + 1]}

\* the order rows of customers c..Len(pop), order ids counted from `next`
RECURSIVE order_rows(_, _, _, _)
order_rows(profiles, pop, c, next) ==
    IF c > Len(pop) THEN <<>>
    ELSE LET prof == profiles[pop[c]]
         IN  [j \in 1..Len(prof) |->
                 [order_id |-> next + j - 1,
                  customer_id |-> c,
                  order_status |-> prof[j].st,
                  order_purchase_timestamp |-> prof[j].ts,
                  pays |-> prof[j].pays,
                  items |-> prof[j].items,
                  delivered |-> prof[j].delivered,
                  estimated |-> prof[j].estimated]]
             \o order_rows(profiles, pop, c + 1, next + Len(prof))

RECURSIVE payment_rows(_)
payment_rows(rows) ==
    IF rows = <<>> THEN <<>>
    ELSE LET o == Head(rows)
         IN  [k \in 1..Len(o.pays) |->
                 [order_id |-> o.order_id,
                  payment_type |-> o.pays[k][1],
                  payment_value |-> o.pays[k][2]]]
             \o payment_rows(Tail(rows))

RECURSIVE item_rows(_)
item_rows(rows) ==
    IF rows = <<>> THEN <<>>
    ELSE LET o == Head(rows)
         IN  [k \in 1..Len(o.items) |->
                 [order_id |-> o.order_id,
                  product_id |-> o.items[k][1],
                  price |-> o.items[k][2]]]
             \o item_rows(Tail(rows))

\* the files of a population: the orders file with its five date columns,
\* the payment and item rows of the orders, and the products that were sold
Dataset(profiles, pop) ==
    LET rows == order_rows(profiles, pop, 1, 1)
        items == item_rows(rows)
    IN  [missing |-> {},
         csv_orders |->
             [i \in DOMAIN rows |->
                 [order_id |-> rows[i].order_id,
                  customer_id |-> rows[i].customer_id,
                  order_status |-> rows[i].order_status,
                  order_purchase_timestamp |-> Cell(rows[i].order_purchase_timestamp),
                  order_approved_at |-> Cell(rows[i].order_purchase_timestamp),
                  order_delivered_carrier_date |-> Cell(rows[i].delivered),
                  order_delivered_customer_date |-> Cell(rows[i].delivered),
                  order_estimated_delivery_date |-> Cell(rows[i].estimated)]],
         order_payments |-> payment_rows(rows),
         order_items |-> items,
         products |->
             SelectSeq(Catalog, LAMBDA p : \E k \in DOMAIN items : items[k].product_id = p.product_id),
         customers |-> <<>>]

\* the same with the customers file: one row per customer
ShopDataset(profiles, pop) ==
    [Dataset([i \in DOMAIN profiles |-> profiles[i].orders], pop) EXCEPT
        !.customers = [c \in DOMAIN pop |->
                          [customer_id |-> c, customer_state |-> profiles[pop[c]].state]]]

Datasets ==
    {Dataset(MixedProfiles, p) : p \in UNION {Populations(MixedProfiles, n) : n \in 1..MaxMixed}}
    \cup
    {Dataset(WideProfiles, p) : p \in UNION {Populations(WideProfiles, n) : n \in 4..MaxCust}}

ShopDatasets ==
    {ShopDataset(ShopProfiles, p) : p \in UNION {Populations(ShopProfiles, n) : n \in 1..MaxShop}}
    \cup
    {ShopDataset(BulkProfiles, p) : p \in {<<1>>, <<1, 2>>, <<3>>}}

\* a dataset one of whose date cells is empty or garbled
DamagedDatasets ==
    LET d == ShopDataset(ShopProfiles, <<1>>)
    IN  {[d EXCEPT !.csv_orders[i][orders_col[k]] = cell] :
            i \in DOMAIN d.csv_orders, k \in DOMAIN orders_col,
            cell \in {Cell(NaT), Garbled}}

\* a dataset some of whose files do not resolve
MissingFiles ==
    LET d == ShopDataset(ShopProfiles, <<1>>)
    IN  {[d EXCEPT !.missing = m] : m \in (SUBSET FileNames) \ {{}}}

\* the calendar days offered by the two custom date inputs
CustomDays == {200, 402}

----------------------------------------------------------------------------
(* The script: one run per interaction *)

\* what a tab placed after the RFM tab reads: an exception that escapes the
\* RFM tab ends the run, and the tabs after it stay empty
after(t2, frame) == IF t2.shown # "exception" THEN frame ELSE <<>>

\* a tab whose body the run never reached shows nothing
unrendered(t) == [t EXCEPT !.shown = "none"]

\* a tab placed after the RFM tab, as the run leaves it
displayed(t2, t) == IF t2.shown # "exception" THEN t ELSE unrendered(t)

\* the page built from the five tabs.  The two rankings are the only choice
\* a run has.
outputs(t1, t2, t3, t4, t5, rfm_frame) ==
    {[page |-> IF t2.shown # "exception" THEN "rendered" ELSE "exception",
      sales |-> [top_categories |-> top1] @@ t1,
      rfm_orders |-> rfm_frame,
      rfm_shown |-> t2.shown,
      rfm |-> t2.rfm,
      payments |-> displayed(t2, t3),
      delivery |-> displayed(t2, t4),
      regional |-> [top_categories |-> top5] @@ displayed(t2, t5)] :
        top1 \in top_categories(t1.category_sales),
        top5 \in top_categories_of_state(t5.category_summary)}

\* variant: the payments tab reads the orders of the selected state only
script_payments_of_state(ords, pays, items, prods, custs, s, e, category, state) ==
    UNION {UNION {outputs(t1, t2, t3, t4, t5, filtered_orders_rfm(ords, s, e)) :
                    t3 \in {tab3(after(t2, state_orders(ords, custs, s, e, state)),
                                 after(t2, pays), s, e)},
                    t4 \in {tab4(after(t2, ords), s, e)},
                    t5 \in {tab5(after(t2, ords), after(t2, items), after(t2, prods),
                                 after(t2, custs), s, e, state)}} :
             t1 \in {tab1(ords, items, prods, s, e, category)},
             t2 \in {tab2(ords, pays, s, e)}}

\* what the five tabs of a run compute from the frames and the widgets
script(ords, pays, items, prods, custs, s, e, category, state) ==
    UNION {UNION {outputs(t1, t2, t3, t4, t5, filtered_orders_rfm(ords, s, e)) :
                    t3 \in {tab3(after(t2, ords), after(t2, pays), s, e)},
                    t4 \in {tab4(after(t2, ords), s, e)},
                    t5 \in {tab5(after(t2, ords), after(t2, items), after(t2, prods),
                                 after(t2, custs), s, e, state)}} :
             t1 \in {tab1(ords, items, prods, s, e, category)},
             t2 \in {tab2(ords, pays, s, e)}}

\* lines 94-96: st.stop() before the sidebar; nothing of the page is built
stopped ==
    CHOOSE out \in script(<<>>, <<>>, <<>>, <<>>, <<>>, NaT, NaT, None, None) : TRUE

\* variant: the RFM table is a session value that a run without RFM
\* population leaves as the run before built it
Run_keeping_rfm(option, s, e, category, state) ==
    /\ page = "rendered"
    /\ \E out \in script(orders, order_payments, order_items, products, customers,
                         s, e, category, state) :
          /\ page' = out.page
          /\ sales' = out.sales
          /\ rfm_orders' = out.rfm_orders
          /\ rfm_shown' = out.rfm_shown
          /\ rfm' = (IF out.rfm_shown = "warning" THEN rfm ELSE out.rfm)
          /\ payments' = out.payments
          /\ delivery' = out.delivery
          /\ regional' = out.regional
    /\ date_option' = option
    /\ start_date' = s
    /\ end_date' = e
    /\ selected_category' = category
    /\ selected_state' = state
    /\ UNCHANGED <<csv_missing, csv_orders, orders, order_payments, order_items,
                   products, customers>>

\* variant: tab 4 works on the cached orders frame itself instead of a copy,
\* so the delivery column it assigns is written into the dataset
Run_without_copy(option, s, e, category, state) ==
    /\ page = "rendered"
    /\ \E out \in script(orders, order_payments, order_items, products, customers,
                         s, e, category, state) :
          /\ page' = out.page
          /\ sales' = out.sales
          /\ rfm_orders' = out.rfm_orders
          /\ rfm_shown' = out.rfm_shown
          /\ rfm' = out.rfm
          /\ payments' = out.payments
          /\ delivery' = out.delivery
          /\ regional' = out.regional
    /\ date_option' = option
    /\ start_date' = s
    /\ end_date' = e
    /\ selected_category' = category
    /\ selected_state' = state
    /\ orders' = [i \in DOMAIN orders |->
                     [delivery_difference |-> delivery_difference(orders[i])]
                     @@ orders[i]]
    /\ UNCHANGED <<csv_missing, csv_orders, order_payments, order_items,
                   products, customers>>

\* a run of the script over the cached frames: every tab filters, merges or
\* copies them into new frames and assigns columns to those only
Run(option, s, e, category, state) ==
    /\ page = "rendered"
    /\ \E out \in script(orders, order_payments, order_items, products, customers,
                         s, e, category, state) :
          /\ page' = out.page
          /\ sales' = out.sales
          /\ rfm_orders' = out.rfm_orders
          /\ rfm_shown' = out.rfm_shown
          /\ rfm' = out.rfm
          /\ payments' = out.payments
          /\ delivery' = out.delivery
          /\ regional' = out.regional
    /\ date_option' = option
    /\ start_date' = s
    /\ end_date' = e
    /\ selected_category' = category
    /\ selected_state' = state
    /\ UNCHANGED <<csv_missing, csv_orders, orders, order_payments, order_items,
                   products, customers>>

\* loading, then the first run with every widget at its default
Start(input) ==
    \E data \in {load_processed_data(input)} :
        /\ csv_missing = input.missing
        /\ csv_orders = input.csv_orders
        /\ IF data.loaded
           THEN /\ orders = data.orders
                /\ order_payments = data.order_payments
                /\ order_items = data.order_items
                /\ products = data.products
                /\ customers = data.customers
                /\ date_option = "Semua Data"
                /\ start_date = min_date(data.orders)
                /\ end_date = max_date(data.orders)
                /\ selected_category = None
                /\ selected_state = None
                /\ \E out \in script(data.orders, data.order_payments, data.order_items,
                                     data.products, data.customers,
                                     min_date(data.orders), max_date(data.orders),
                                     None, None) :
                      /\ page = out.page
                      /\ sales = out.sales
                      /\ rfm_orders = out.rfm_orders
                      /\ rfm_shown = out.rfm_shown
                      /\ rfm = out.rfm
                      /\ payments = out.payments
                      /\ delivery = out.delivery
                      /\ regional = out.regional
           ELSE /\ orders = <<>>
                /\ order_payments = <<>>
                /\ order_items = <<>>
                /\ products = <<>>
                /\ customers = <<>>
                /\ date_option = None
                /\ start_date = NaT
                /\ end_date = NaT
                /\ selected_category = None
                /\ selected_state = None
                /\ \E out \in {stopped} :
                      /\ page = "load_failed"
                      /\ sales = unrendered(out.sales)
                      /\ rfm_orders = out.rfm_orders
                      /\ rfm_shown = "none"
                      /\ rfm = out.rfm
                      /\ payments = unrendered(out.payments)
                      /\ delivery = unrendered(out.delivery)
                      /\ regional = unrendered(out.regional)

\* the sessions of the RFM study: the populations of Datasets, and one shop
\* that gives the category and the state selectbox entries to choose from
Inputs == Datasets \cup {ShopDataset(ShopProfiles, <<1, 2>>)}

Init == \E input \in Inputs : Start(input)

\* the sessions of the other tabs and of the loader
ShopInputs == ShopDatasets \cup DamagedDatasets \cup MissingFiles

InitShop == \E input \in ShopInputs : Start(input)

\* the radio button moved to another entry (lines 130-146)
SelectAllData ==
    /\ date_option # "Semua Data"
    /\ Run("Semua Data", min_date(orders), max_date(orders),
           selected_category, selected_state)

SelectLastYear ==
    /\ date_option # "Tahun Terakhir"
    /\ Run("Tahun Terakhir", max_date(orders) - timedelta(365), max_date(orders),
           selected_category, selected_state)

SelectLast6Months ==
    /\ date_option # "6 Bulan Terakhir"
    /\ Run("6 Bulan Terakhir", max_date(orders) - timedelta(180), max_date(orders),
           selected_category, selected_state)

SelectLast3Months ==
    /\ date_option # "3 Bulan Terakhir"
    /\ Run("3 Bulan Terakhir", max_date(orders) - timedelta(90), max_date(orders),
           selected_category, selected_state)

\* the radio button moved to "Kustom", or one of the two date inputs changed
SelectCustom ==
    \E s \in CustomDays, e \in CustomDays :
        /\ <<date_option, start_date, end_date>> # <<"Kustom", to_datetime(s), to_datetime(e)>>
        /\ Run("Kustom", to_datetime(s), to_datetime(e), selected_category, selected_state)

\* another entry of the category selectbox (lines 157-168)
SelectCategory ==
    \E c \in Range(categories(products)) \cup {None} :
        /\ c # selected_category
        /\ Run(date_option, start_date, end_date, c, selected_state)

\* another entry of the state selectbox (lines 171-176)
SelectState ==
    \E st \in Range(states(customers)) \cup {None} :
        /\ st # selected_state
        /\ Run(date_option, start_date, end_date, selected_category, st)

Next ==
    \/ SelectAllData
    \/ SelectLastYear
    \/ SelectLast6Months
    \/ SelectLast3Months
    \/ SelectCustom
    \/ SelectCategory
    \/ SelectState

Spec == Init /\ [][Next]_vars

SpecShop == InitShop /\ [][Next]_vars

----------------------------------------------------------------------------
(* Vocabulary of the properties *)

RecencyCol == [i \in DOMAIN rfm |-> rfm[i].recency]

FrequencyCol == [i \in DOMAIN rfm |-> rfm[i].frequency]

MonetaryCol == [i \in DOMAIN rfm |-> rfm[i].monetary]

Scored == rfm_shown = "segments"

\* the orders that qualify for RFM under the window of the current run
HasPaymentRow(id) == \E k \in DOMAIN order_payments : order_payments[k].order_id = id

Qualifying ==
    {i \in DOMAIN orders :
        /\ orders[i].order_status = "delivered"
        /\ in_window(orders[i].order_purchase_timestamp, start_date, end_date)
        /\ HasPaymentRow(orders[i].order_id)}

QualifyingOf(c) == {i \in Qualifying : orders[i].customer_id = c}

SegmentRank(seg) ==
    CASE seg = "Bronze" -> 1
      [] seg = "Silver" -> 2
      [] seg = "Gold" -> 3
      [] seg = "Platinum" -> 4
      [] OTHER -> 0

----------------------------------------------------------------------------
(* C1: for each of recency, frequency and monetary independently, when the
   metric takes fewer than 5 distinct values over the customers of the RFM
   table, every customer's score for that metric is 3. *)
C1_NeutralScoreBelowFiveDistinct ==
    Scored =>
        /\ nunique(RecencyCol) < 5 => \A i \in DOMAIN rfm : rfm[i].r_score = 3
        /\ nunique(FrequencyCol) < 5 => \A i \in DOMAIN rfm : rfm[i].f_score = 3
        /\ nunique(MonetaryCol) < 5 => \A i \in DOMAIN rfm : rfm[i].m_score = 3

\* five or more customers, frequency with 2..4 distinct values scored 3
\* throughout while recency, with 5 distinct values, is binned
C1_Witness ==
    /\ Scored
    /\ Len(rfm) >= 5
    /\ nunique(FrequencyCol) \in 2..4
    /\ nunique(RecencyCol) >= 5
    /\ \A i \in DOMAIN rfm : rfm[i].f_score = 3
    /\ \E i \in DOMAIN rfm : rfm[i].r_score # 3

(* C2: in every RFM table every customer's r_score, f_score and m_score is
   an integer in 1..5 (never missing), and rfm_score is their sum, hence in
   3..15. *)
C2_ScoresInRange ==
    \A i \in DOMAIN rfm :
        /\ rfm[i].r_score \in 1..5
        /\ rfm[i].f_score \in 1..5
        /\ rfm[i].m_score \in 1..5
        /\ rfm[i].rfm_score = rfm[i].r_score + rfm[i].f_score + rfm[i].m_score
        /\ rfm[i].rfm_score \in 3..15

\* a table that holds both extremes of the composite score
C2_Witness ==
    /\ Scored
    /\ \E i \in DOMAIN rfm : rfm[i].rfm_score = 3
    /\ \E i \in DOMAIN rfm : rfm[i].rfm_score = 15

\* the segment the fixed boundaries give to a composite score
SegmentByBoundaries(score) ==
    CASE score \in 0..4 -> "Bronze"
      [] score \in 5..8 -> "Silver"
      [] score \in 9..12 -> "Gold"
      [] score \in 13..15 -> "Platinum"
      [] OTHER -> "NaN"

(* C3: the segment is a function of rfm_score alone with fixed boundaries:
   0..4 Bronze, 5..8 Silver, 9..12 Gold, 13..15 Platinum; every score in
   3..15 has exactly one segment, and a higher score never has a lower
   segment. *)
C3_SegmentBoundaries ==
    /\ \A i \in DOMAIN rfm : rfm[i].segment = SegmentByBoundaries(rfm[i].rfm_score)
    /\ \A i, j \in DOMAIN rfm :
          rfm[i].rfm_score <= rfm[j].rfm_score
              => SegmentRank(rfm[i].segment) <= SegmentRank(rfm[j].segment)
    /\ \A sc \in 0..15 : segment(sc) = SegmentByBoundaries(sc)
    /\ \A sc \in 3..15 : SegmentRank(segment(sc)) \in 1..4
    /\ \A sc \in 3..14 : SegmentRank(segment(sc)) <= SegmentRank(segment(sc + 1))

\* one table with customers in all four segments, one of them on a boundary
C3_Witness ==
    /\ Scored
    /\ {rfm[i].segment : i \in DOMAIN rfm} = {"Bronze", "Silver", "Gold", "Platinum"}
    /\ \E i \in DOMAIN rfm : rfm[i].rfm_score \in {4, 8, 12}

(* C4: when recency has at least 5 distinct values, recency scores run in
   the reversed direction: recency(a) <= recency(b) implies
   r_score(a) >= r_score(b); equal recency gives equal r_score. *)
C4_RecencyScoreReversed ==
    (Scored /\ nunique(RecencyCol) >= 5) =>
        \A a, b \in DOMAIN rfm :
            /\ rfm[a].recency <= rfm[b].recency => rfm[a].r_score >= rfm[b].r_score
            /\ rfm[a].recency = rfm[b].recency => rfm[a].r_score = rfm[b].r_score

\* quantile binning succeeded on recency and gave all five scores
C4_Witness ==
    /\ Scored
    /\ nunique(RecencyCol) >= 5
    /\ {rfm[i].r_score : i \in DOMAIN rfm} = 1..5
    /\ \E a, b \in DOMAIN rfm : a # b /\ rfm[a].recency < rfm[b].recency
                                     /\ rfm[a].r_score = 5 /\ rfm[b].r_score = 1

\* the frequency/monetary scoring properties of a metric column and its scores
AscendingFiveBuckets(col, score) ==
    /\ \A a, b \in DOMAIN col : col[a] > col[b] => score[a] >= score[b]
    /\ \A a, b \in DOMAIN col : (col[a] = col[b] /\ a < b) => score[a] <= score[b]
    /\ {score[i] : i \in DOMAIN col} = 1..5

(* C5: when frequency (respectively monetary) has at least 5 distinct
   values, the customers are ranked with ties broken by row order and the
   ranks cut into 5 buckets labelled 1..5 ascending: a customer with a
   strictly higher value never has a lower score, among equal values an
   earlier row never has a higher score, and each of the scores 1..5 is
   given to at least one customer. *)
C5_FrequencyMonetaryBuckets ==
    Scored =>
        /\ nunique(FrequencyCol) >= 5 =>
              AscendingFiveBuckets(FrequencyCol, [i \in DOMAIN rfm |-> rfm[i].f_score])
        /\ nunique(MonetaryCol) >= 5 =>
              AscendingFiveBuckets(MonetaryCol, [i \in DOMAIN rfm |-> rfm[i].m_score])

\* frequency and monetary both binned, with two customers of equal frequency
\* and two of equal monetary value in different buckets
C5_Witness ==
    /\ Scored
    /\ nunique(FrequencyCol) >= 5
    /\ nunique(MonetaryCol) >= 5
    /\ \E a, b \in DOMAIN rfm : /\ rfm[a].frequency = rfm[b].frequency
                                /\ rfm[a].f_score < rfm[b].f_score
    /\ \E a, b \in DOMAIN rfm : /\ rfm[a].monetary = rfm[b].monetary
                                /\ rfm[a].m_score < rfm[b].m_score

\* the bucket 1..5 of row i when the value range of the column is split into
\* five intervals of equal width, each closed on the right
EqualWidthBucket(col, i) ==
    LET mn == SetMin(Range(col))
        mx == SetMax(Range(col))
    IN  CHOOSE k \in 1..5 :
            /\ 5 * (col[i] - mn) <= k * (mx - mn)
            /\ \A h \in 1..(k - 1) : 5 * (col[i] - mn) > h * (mx - mn)

\* two neighbouring quintile edges of the column coincide
QuantileEdgesRepeat(col) ==
    \E k \in 0..4 : quantile5(SortValues(col), k) = quantile5(SortValues(col), k + 1)

(* C6: when recency has at least 5 distinct values but its quintile edges
   are not 5 distinct bins, the scores are those of equal-width binning of
   the value range into 5 buckets labelled 5,4,3,2,1; no run ends in an
   exception and every customer has a score in 1..5. *)
C6_EqualWidthFallback ==
    /\ rfm_shown # "exception"
    /\ (Scored /\ nunique(RecencyCol) >= 5 /\ QuantileEdgesRepeat(RecencyCol)) =>
          \A i \in DOMAIN rfm :
              /\ rfm[i].r_score = 6 - EqualWidthBucket(RecencyCol, i)
              /\ rfm[i].r_score \in 1..5

\* the fallback has acted on a skewed column: some bucket stays empty
C6_Witness ==
    /\ Scored
    /\ nunique(RecencyCol) >= 5
    /\ QuantileEdgesRepeat(RecencyCol)
    /\ {rfm[i].r_score : i \in DOMAIN rfm} \notin {{3}, 1..5}

AllNeutralGold ==
    \A i \in DOMAIN rfm :
        /\ rfm[i].r_score = 3 /\ rfm[i].f_score = 3 /\ rfm[i].m_score = 3
        /\ rfm[i].rfm_score = 9
        /\ rfm[i].segment = "Gold"

(* C7: whenever all three metrics have fewer than 5 distinct values (in
   particular whenever the table has fewer than 5 customers), every customer
   has the three scores 3, rfm_score 9 and segment Gold. *)
C7_AllNeutralIsGold ==
    /\ (Scored /\ nunique(RecencyCol) < 5 /\ nunique(FrequencyCol) < 5
               /\ nunique(MonetaryCol) < 5) => AllNeutralGold
    /\ (Scored /\ Len(rfm) < 5) => AllNeutralGold

\* the single-customer scenario: recency 0, frequency 1, monetary 100
C7_Witness ==
    /\ Scored
    /\ Len(rfm) = 1
    /\ rfm[1].recency = 0 /\ rfm[1].frequency = 1 /\ rfm[1].monetary = 100
    /\ rfm[1].rfm_score = 9 /\ rfm[1].segment = "Gold"

\* the dataset cut down to the qualifying orders and their payment rows
QualifyingOrders == [k \in 1..Len(SortedSeq(Qualifying)) |-> orders[SortedSeq(Qualifying)[k]]]

QualifyingPayments ==
    SelectSeq(order_payments,
              LAMBDA p : \E i \in Qualifying : orders[i].order_id = p.order_id)

(* C8: a customer is in the RFM table if and only if the customer has an
   order that is delivered, purchased inside [start_date, end_date] and
   matched by a payment row; all other orders contribute nothing: the table
   is the one computed from the qualifying orders alone. *)
C8_QualifyingCustomersOnly ==
    /\ {rfm[i].customer_id : i \in DOMAIN rfm} = {orders[i].customer_id : i \in Qualifying}
    /\ Len(rfm) = Cardinality({orders[i].customer_id : i \in Qualifying})
    /\ rfm = tab2(QualifyingOrders, QualifyingPayments, start_date, end_date).rfm

\* a run that left out an order for each of the three reasons
C8_Witness ==
    /\ Scored
    /\ \E i \in DOMAIN orders :
          /\ orders[i].order_status # "delivered"
          /\ HasPaymentRow(orders[i].order_id)
          /\ orders[i].order_purchase_timestamp \in start_date..end_date
    /\ \E i \in DOMAIN orders :
          /\ orders[i].order_status = "delivered"
          /\ ~HasPaymentRow(orders[i].order_id)
          /\ orders[i].order_purchase_timestamp \in start_date..end_date
    /\ \E i \in DOMAIN orders :
          /\ orders[i].order_status = "delivered"
          /\ HasPaymentRow(orders[i].order_id)
          /\ orders[i].order_purchase_timestamp \notin start_date..end_date
    /\ \E i \in DOMAIN orders :
          orders[i].customer_id \notin {rfm[k].customer_id : k \in DOMAIN rfm}

LastQualifyingPurchase(c) ==
    SetMax({orders[i].order_purchase_timestamp : i \in QualifyingOf(c)})

(* C9: for every customer of the RFM table, recency is the whole number of
   days from the customer's latest qualifying purchase to end_date and is
   >= 0, frequency is >= 1 and monetary is >= 0. *)
C9_MetricRanges ==
    \A i \in DOMAIN rfm :
        /\ QualifyingOf(rfm[i].customer_id) # {}
        /\ rfm[i].recency >= 0
        /\ rfm[i].recency * DayLen <= end_date - LastQualifyingPurchase(rfm[i].customer_id)
        /\ end_date - LastQualifyingPurchase(rfm[i].customer_id) < (rfm[i].recency + 1) * DayLen
        /\ rfm[i].frequency >= 1
        /\ rfm[i].monetary >= 0

\* a customer with qualifying purchases at two instants, and a customer
\* whose latest purchase lies a broken number of days (more than one) back
C9_Witness ==
    /\ Scored
    /\ \E i \in DOMAIN rfm :
          Cardinality({orders[k].order_purchase_timestamp :
                          k \in QualifyingOf(rfm[i].customer_id)}) >= 2
    /\ \E i \in DOMAIN rfm :
          /\ (end_date - LastQualifyingPurchase(rfm[i].customer_id)) % DayLen # 0
          /\ rfm[i].recency >= 1

\* the ids of the qualifying orders of customer c
QualifyingIds(c) == {orders[i].order_id : i \in QualifyingOf(c)}

\* the payment rows of the qualifying orders of customer c
PaymentRowsOf(c) ==
    LET ids == QualifyingIds(c)
    IN  SelectSeq(order_payments, LAMBDA p : p.order_id \in ids)

(* C10: frequency is the number of distinct qualifying order ids of the
   customer (an order with several payment rows counts once), and monetary
   is the sum of payment_value over every payment row of those orders. *)
C10_FrequencyAndMonetary ==
    \A i \in DOMAIN rfm :
        /\ rfm[i].frequency = Cardinality(QualifyingIds(rfm[i].customer_id))
        /\ LET rows == PaymentRowsOf(rfm[i].customer_id)
           IN  rfm[i].monetary = SumSeq([k \in DOMAIN rows |-> rows[k].payment_value])

\* a customer whose single qualifying order is paid through two rows
C10_Witness ==
    /\ Scored
    /\ \E i \in DOMAIN rfm :
          /\ rfm[i].frequency = 1
          /\ Len(PaymentRowsOf(rfm[i].customer_id)) = 2
          /\ rfm[i].monetary = 7

(* C11: when no order qualifies for RFM under the window of the run (the
   filtered RFM population is empty), the run builds no RFM record and
   assigns no score, it reports the RFM section as unavailable by a warning,
   and it raises no error: the run goes on to render the whole page. *)
C11_EmptyPopulationUnavailable ==
    (page # "load_failed" /\ Qualifying = {}) =>
        /\ rfm_shown = "warning"
        /\ rfm = <<>>
        /\ page = "rendered"

\* an empty population inside a dataset that has delivered, paid orders: the
\* window of the run is what left nothing
C11_Witness ==
    /\ Qualifying = {}
    /\ rfm_shown = "warning"
    /\ \E i \in DOMAIN orders :
          orders[i].order_status = "delivered" /\ HasPaymentRow(orders[i].order_id)

\* the order has a purchase time, and it lies in [start_date, end_date]
InWindow(o) ==
    /\ o.order_purchase_timestamp # NaT
    /\ start_date <= o.order_purchase_timestamp
    /\ o.order_purchase_timestamp <= end_date

Delivered(o) == o.order_status = "delivered"

\* the customer of the order lives in the selected state, if one is selected
OfSelectedState(o) ==
    selected_state # None =>
        \E i \in DOMAIN customers :
            /\ customers[i].customer_id = o.customer_id
            /\ customers[i].customer_state = selected_state

\* rows holds exactly the loaded orders that satisfy P, each once
ExactlyTheOrders(rows, P(_)) ==
    /\ Range(rows) = {orders[i] : i \in {j \in DOMAIN orders : P(orders[j])}}
    /\ Len(rows) = Cardinality({j \in DOMAIN orders : P(orders[j])})

(* C12: in every section that filters orders by date, the filtered order
   set is a subset of the loaded orders and holds exactly the orders given
   to the filter whose purchase time t satisfies start_date <= t <= end_date
   (both ends included): all loaded orders in tabs 1 and 3, the delivered
   ones in tabs 2 and 4, those of the selected state in tab 5. *)
C12_DateFilterExact ==
    page = "rendered" =>
        /\ ExactlyTheOrders(sales.filtered_orders, InWindow)
        /\ ExactlyTheOrders(payments.filtered_orders_payment, InWindow)
        /\ ExactlyTheOrders(rfm_orders, LAMBDA o : InWindow(o) /\ Delivered(o))
        /\ ExactlyTheOrders(delivery.filtered, LAMBDA o : InWindow(o) /\ Delivered(o))
        /\ ExactlyTheOrders(regional.state_orders,
                            LAMBDA o : InWindow(o) /\ OfSelectedState(o))

\* a window that starts at the purchase time of one order and ends before
\* that of another, with an undelivered order of another state inside
C12_Witness ==
    /\ page = "rendered"
    /\ selected_state # None
    /\ \E i \in DOMAIN orders : orders[i].order_purchase_timestamp = start_date
    /\ \E i \in DOMAIN orders : orders[i].order_purchase_timestamp > end_date
    /\ \E i \in DOMAIN orders :
          InWindow(orders[i]) /\ ~Delivered(orders[i]) /\ ~OfSelectedState(orders[i])
    /\ Len(regional.state_orders) = 1
    /\ Len(rfm_orders) = 1
    /\ Len(sales.filtered_orders) = 2

(* C13: when start_date is later than end_date, the date-filtered order set
   of every section is empty and the run completes without error: the page
   is rendered to its end, with no RFM table. *)
C13_ReversedWindowEmpty ==
    (page # "load_failed" /\ start_date > end_date) =>
        /\ page = "rendered"
        /\ sales.filtered_orders = <<>>
        /\ rfm_orders = <<>>
        /\ payments.filtered_orders_payment = <<>>
        /\ delivery.filtered = <<>>
        /\ regional.state_orders = <<>>
        /\ rfm_shown = "warning"
        /\ delivery.shown = "warning"

\* a reversed window with delivered orders between its two ends
C13_Witness ==
    /\ page = "rendered"
    /\ start_date > end_date
    /\ \E i \in DOMAIN orders :
          /\ Delivered(orders[i])
          /\ orders[i].order_purchase_timestamp # NaT
          /\ end_date <= orders[i].order_purchase_timestamp
          /\ orders[i].order_purchase_timestamp <= start_date
    /\ sales.filtered_orders = <<>>

\* the category a product goes by: its translated name, or its native name
\* when it has no translation
EffectiveCategory(p) ==
    IF p.product_category_name_english # NaN
    THEN p.product_category_name_english
    ELSE p.product_category_name

\* the item rows of the date-filtered orders of tab 1
DateFilteredItems == merge_items(sales.filtered_orders, order_items)

(* C14: with a category selected, the category filter keeps exactly the
   order items whose product's translated category name equals the selected
   value, a product without translation being matched by its native category
   name instead; with no category selected, all date-filtered items are
   kept. *)
C14_CategoryFilterWithFallback ==
    page = "rendered" =>
        sales.filtered_items =
            IF selected_category # None
            THEN SelectSeq(DateFilteredItems,
                           LAMBDA it : \E k \in DOMAIN products :
                               /\ products[k].product_id = it.product_id
                               /\ EffectiveCategory(products[k]) = selected_category)
            ELSE DateFilteredItems

\* the delivered orders of the window whose two delivery dates are present
Classifiable ==
    {i \in DOMAIN orders :
        /\ InWindow(orders[i]) /\ Delivered(orders[i])
        /\ orders[i].order_delivered_customer_date # NaT
        /\ orders[i].order_estimated_delivery_date # NaT}

\* the five bins of the signed whole-day delta d
StatusByThresholds(d) ==
    CASE d <= -3 -> "Very Early"
      [] -3 < d /\ d <= -1 -> "Early"
      [] -1 < d /\ d <= 0 -> "On Time"
      [] 0 < d /\ d <= 2 -> "Late"
      [] d > 2 -> "Very Late"

(* C15: every delivered order of the window with both delivery dates present
   is classified, by the signed whole-day delta d = actual - estimated, into
   exactly one of five bins: d <= -3 Very Early, -3 < d <= -1 Early,
   -1 < d <= 0 On Time, 0 < d <= 2 Late, d > 2 Very Late; the five counts of
   the summary add up to the number of classified orders. *)
C15_DeliveryStatusBins ==
    page = "rendered" =>
        /\ {delivery.delivery_data[k].order_id : k \in DOMAIN delivery.delivery_data}
               = {orders[i].order_id : i \in Classifiable}
        /\ Len(delivery.delivery_data) = Cardinality(Classifiable)
        /\ \A k \in DOMAIN delivery.delivery_data :
              LET row == delivery.delivery_data[k]
                  o == orders[CHOOSE i \in Classifiable : orders[i].order_id = row.order_id]
                  delta == o.order_delivered_customer_date - o.order_estimated_delivery_date
              IN  /\ row.delivery_difference * DayLen <= delta
                  /\ delta < (row.delivery_difference + 1) * DayLen
                  /\ row.delivery_status = StatusByThresholds(row.delivery_difference)
        /\ Classifiable # {} =>
              /\ Len(delivery.delivery_summary) = 5
              /\ \A k \in 1..5 :
                    delivery.delivery_summary[k].count =
                        Cardinality({j \in DOMAIN delivery.delivery_data :
                            delivery.delivery_data[j].delivery_status =
                                delivery.delivery_summary[k].delivery_status})
              /\ SumSeq([k \in 1..5 |-> delivery.delivery_summary[k].count])
                    = Cardinality(Classifiable)
              /\ {delivery.delivery_summary[k].delivery_status : k \in 1..5}
                    = {"Very Early", "Early", "On Time", "Late", "Very Late"}

\* a run that fills all five bins, one of them with a delta on its upper
\* edge, and leaves out an order without delivery date
C15_Witness ==
    /\ page = "rendered"
    /\ delivery.shown = "charts"
    /\ \A k \in 1..5 : delivery.delivery_summary[k].count >= 1
    /\ \E k \in DOMAIN delivery.delivery_data :
          delivery.delivery_data[k].delivery_difference = 2
    /\ \E k \in DOMAIN delivery.delivery_data :
          delivery.delivery_data[k].delivery_difference = 0

\* the quotient is the number zero, not NaN or an infinity
IsZero(q) == q.kind = "number" /\ q.num = 0

\* the denominator of the percentage share: the total over all payment types
TotalPaymentValue ==
    SumSeq([k \in DOMAIN payments.payment_summary |->
               payments.payment_summary[k].total_value])

(* C16: every average or percentage is zero, not an undefined value, when
   its denominator is zero: the average order value of tab 1 (total sales
   over the number of orders), the percentage share of each payment type
   (its total over the total of all types) and the average value per order
   of each payment type (its total over its number of orders). *)
C16_ZeroWhenDenominatorZero ==
    page = "rendered" =>
        /\ sales.total_orders = 0 => IsZero(sales.avg_order_value)
        /\ \A k \in DOMAIN payments.payment_summary :
              TotalPaymentValue = 0 => IsZero(payments.payment_summary[k].percentage)
        /\ \A k \in DOMAIN payments.display_stats :
              payments.display_stats[k].order_count = 0 =>
                  IsZero(payments.display_stats[k].avg_value)

\* the position of a category in the grouped table, the table before sorting
RowOf(summary, category) ==
    CHOOSE i \in DOMAIN summary : summary[i].category = category

\* top holds the n best rows of summary by the sums given in `sum`, best
\* first, rows of equal sum in the order they have in summary
TopNStable(top, summary, sum(_), n) ==
    /\ Len(top) = (IF Len(summary) < n THEN Len(summary) ELSE n)
    /\ \A k \in DOMAIN top : \E i \in DOMAIN summary : summary[i] = top[k]
    /\ \A k \in 1..(Len(top) - 1) : sum(top[k]) >= sum(top[k + 1])
    /\ \A i \in DOMAIN summary :
          (\A k \in DOMAIN top : top[k] # summary[i]) =>
              \A k \in DOMAIN top : sum(summary[i]) <= sum(top[k])
    /\ \A k \in 1..(Len(top) - 1) :
          sum(top[k]) = sum(top[k + 1]) =>
              RowOf(summary, top[k].category) < RowOf(summary, top[k + 1].category)

(* C17: the top-N category ranking (N = 10 in tab 1, N = 5 in tab 5) returns
   at most N categories in non-increasing order of summed item price; every
   category left out has a sum <= that of every category returned; and
   categories of equal sum appear in their original, pre-sort row order. *)
C17_TopCategoriesStable ==
    page = "rendered" =>
        /\ TopNStable(sales.top_categories, sales.category_sales,
                      LAMBDA r : r.price, 10)
        /\ TopNStable(regional.top_categories, regional.category_summary,
                      LAMBDA r : r.total_sales, 5)

\* the window that the selected radio entry stands for
WindowOfOption ==
    CASE date_option = "Semua Data" ->
             start_date = min_date(orders) /\ end_date = max_date(orders)
      [] date_option = "Tahun Terakhir" ->
             start_date = max_date(orders) - 365 * DayLen /\ end_date = max_date(orders)
      [] date_option = "6 Bulan Terakhir" ->
             start_date = max_date(orders) - 180 * DayLen /\ end_date = max_date(orders)
      [] date_option = "3 Bulan Terakhir" ->
             start_date = max_date(orders) - 90 * DayLen /\ end_date = max_date(orders)
      [] date_option = "Kustom" ->
             start_date % DayLen = 0 /\ end_date % DayLen = 0

(* C18: what a run shows is a function of the loaded dataset and of the
   filter configuration of that run only (date option and window, selected
   category, selected state): every table on the page is the one the script
   computes from the cached frames and the current widget values, whatever
   the runs before it showed.  Rows of equal rank in the two category rankings
   may come in either order. *)
C18_OutputsFunctionOfInputs ==
    page # "load_failed" =>
        /\ WindowOfOption
        /\ \E out \in script(orders, order_payments, order_items, products, customers,
                             start_date, end_date, selected_category, selected_state) :
              /\ page = out.page
              /\ sales = out.sales
              /\ rfm_orders = out.rfm_orders
              /\ rfm_shown = out.rfm_shown
              /\ rfm = out.rfm
              /\ payments = out.payments
              /\ delivery = out.delivery
              /\ regional = out.regional

\* a run under a custom window with a category and a state selected, hence
\* after at least three interactions, whose RFM table has lost a customer
\* that the first run of the session scored
C18_Witness ==
    /\ page = "rendered"
    /\ date_option = "Kustom"
    /\ selected_category # None
    /\ selected_state # None
    /\ Len(rfm) = 1
    /\ \E i \in DOMAIN orders :
          /\ Delivered(orders[i]) /\ HasPaymentRow(orders[i].order_id)
          /\ orders[i].customer_id # rfm[1].customer_id
    /\ sales.filtered_items # <<>>

\* nothing of the page has been built: no widget has a value, no tab a table
NothingRendered ==
    /\ date_option = None /\ start_date = NaT /\ end_date = NaT
    /\ selected_category = None /\ selected_state = None
    /\ rfm_shown = "none" /\ rfm = <<>> /\ rfm_orders = <<>>
    /\ sales.filtered_orders = <<>> /\ sales.top_categories = <<>>
    /\ payments.payment_summary = <<>>
    /\ delivery.delivery_data = <<>>
    /\ regional.top_categories = <<>>

(* C19: when a required dataset file is missing or cannot be read, loading
   yields no dataset, the blocking error message is shown, and the run halts
   before the sidebar or any section is evaluated; no interaction is
   offered after that. *)
C19_MissingFileHalts ==
    csv_missing # {} =>
        /\ page = "load_failed"
        /\ orders = <<>> /\ order_payments = <<>> /\ order_items = <<>>
        /\ products = <<>> /\ customers = <<>>
        /\ NothingRendered
        /\ ~ENABLED Next

\* the only file that does not resolve is one no tab reads, and the orders
\* file on disk has rows
C19_Witness ==
    /\ csv_missing = {"sellers_dataset.csv"}
    /\ csv_orders # <<>>
    /\ page = "load_failed"

(* C20: when a date column of the orders file holds a missing or an
   unparseable value, loading still succeeds, that value is treated as
   absent (NaT) and the run continues: such a value never makes the load
   fail. *)
C20_BadDateNotFatal ==
    csv_missing = {} =>
        /\ page # "load_failed"
        /\ Len(orders) = Len(csv_orders)
        /\ \A i \in DOMAIN csv_orders : \A k \in DOMAIN orders_col :
              csv_orders[i][orders_col[k]].kind # "timestamp" =>
                  orders[i][orders_col[k]] = NaT

----------------------------------------------------------------------------
(* Empty sections, monthly buckets and the loaded frames *)

(* C21: whenever the filter or join of a section yields no qualifying row,
   that section shows an insufficient-data indicator instead of charts over
   empty data, and every section of the run is still computed; this for each
   of the five sections: sales, RFM, payments, delivery, geography. *)
C21_EmptySectionShowsIndicator ==
    page = "rendered" =>
        /\ sales.filtered_items = <<>> => sales.shown = "warning"
        /\ rfm = <<>> => rfm_shown = "warning"
        /\ payments.payment_summary = <<>> => payments.shown = "warning"
        /\ delivery.delivery_data = <<>> => delivery.shown = "warning"
        /\ regional.category_summary = <<>> => regional.shown = "warning"
        /\ "none" \notin {sales.shown, rfm_shown, payments.shown,
                          delivery.shown, regional.shown}

\* no two rows of the orders frame share an order id
UniqueOrderIds ==
    \A i, j \in DOMAIN orders : orders[i].order_id = orders[j].order_id => i = j

\* the purchase timestamp of the order of an item row
PurchaseTime(it) ==
    LET i == CHOOSE j \in DOMAIN orders : orders[j].order_id = it.order_id
    IN  orders[i].order_purchase_timestamp

\* the days from the first of January of EpochYear to the first of month m
\* of year y
RECURSIVE DaysBefore(_, _)
DaysBefore(y, m) ==
    IF y = EpochYear /\ m = 1 THEN 0
    ELSE IF m = 1 THEN DaysBefore(y - 1, 12) + 31
    ELSE DaysBefore(y, m - 1) + days_in_month(y, m - 1)

\* the timestamp lies in the calendar month that the bucket key yyyymm names
InMonth(ts, key) ==
    LET y == key \div 100
        m == key % 100
        d == ts \div DayLen
    IN  /\ y >= EpochYear
        /\ m \in 1..12
        /\ DaysBefore(y, m) <= d
        /\ d < DaysBefore(y, m) + days_in_month(y, m)

(* C22: the monthly sales buckets are keyed by the year and month of the
   purchase timestamp.  With unique order ids, every filtered item price is
   added to exactly one bucket, that of its order's year and month (the same
   month of two years gives two buckets), no bucket is empty, and the monthly
   totals add up to the total sales metric of the same run. *)
C22_MonthlyBuckets ==
    (page = "rendered" /\ UniqueOrderIds) =>
        LET ms == sales.monthly_sales
            fi == sales.filtered_items
        IN  /\ \A k \in DOMAIN fi :
                  Cardinality({b \in DOMAIN ms :
                                  InMonth(PurchaseTime(fi[k]), ms[b].month)}) = 1
            /\ \A b \in DOMAIN ms :
                  LET g == SelectSeq(fi, LAMBDA it : InMonth(PurchaseTime(it), ms[b].month))
                  IN  /\ g # <<>>
                      /\ ms[b].price = SumSeq([i \in DOMAIN g |-> g[i].price])
            /\ \A a, b \in DOMAIN ms : a < b => ms[a].month < ms[b].month
            /\ SumSeq([b \in DOMAIN ms |-> ms[b].price]) = sales.total_sales

\* items sold in the same month of two years, one of the two buckets
\* holding more than one item
C22_Witness ==
    /\ page = "rendered"
    /\ UniqueOrderIds
    /\ \E a, b \in DOMAIN sales.monthly_sales :
          /\ sales.monthly_sales[a].month % 100 = sales.monthly_sales[b].month % 100
          /\ sales.monthly_sales[a].month < sales.monthly_sales[b].month
          /\ Cardinality({k \in DOMAIN sales.filtered_items :
                 InMonth(PurchaseTime(sales.filtered_items[k]),
                         sales.monthly_sales[b].month)}) >= 2

(* C23: no run modifies the loaded dataset.  Over any sequence of runs with
   any filter configurations, each loaded table (customers, orders, order
   items, payments, products) keeps the rows and the columns it had right
   after loading; the derived columns (delivery difference and status,
   month, scores) exist in the derived frames only. *)
C23_DatasetReadOnly ==
    [][/\ orders' = orders
       /\ order_payments' = order_payments
       /\ order_items' = order_items
       /\ products' = products
       /\ customers' = customers]_vars

\* after runs that changed the window, the category and the state: the
\* derived frames carry the derived columns, the order rows do not
C23_Witness ==
    /\ page = "rendered"
    /\ date_option = "Kustom"
    /\ selected_category # None
    /\ selected_state # None
    /\ delivery.delivery_data # <<>>
    /\ \A k \in DOMAIN delivery.delivery_data :
          {"delivery_difference", "delivery_status"} \subseteq DOMAIN delivery.delivery_data[k]
    /\ sales.monthly_sales # <<>>
    /\ rfm # <<>>
    /\ \A i \in DOMAIN orders :
          DOMAIN orders[i] \cap {"delivery_difference", "delivery_status", "month"} = {}
    /\ orders = to_datetime_column(csv_orders)

----------------------------------------------------------------------------
(* Frequency and monetary are always binned by quantiles *)

\* the column is scored by quantile binning of its tie-broken ranks, which
\* are 1..n and whose quintile edges increase strictly
RankedQuantileScoring(col, score) ==
    LET ranks == rank_first(col)
        sorted == SortValues(ranks)
        q == qcut(ranks, <<1, 2, 3, 4, 5>>)
    IN  /\ Len(col) >= 5
        /\ Range(ranks) = 1..Len(col)
        /\ \A k \in 0..4 : quantile5(sorted, k) < quantile5(sorted, k + 1)
        /\ ~q.error
        /\ \A i \in DOMAIN col : score[i] = q.values[i] /\ score[i] \in 1..5

(* C24: for frequency and for monetary the equal-width fallback is never
   taken.  Whenever the metric has at least 5 distinct values, its tie-broken
   ranks are the distinct values 1..n with n >= 5, the quintile edges over
   them increase strictly, quantile binning succeeds and gives the scores;
   equal-width binning can only ever score recency. *)
C24_FallbackOnlyForRecency ==
    Scored =>
        /\ nunique(FrequencyCol) >= 5 =>
              RankedQuantileScoring(FrequencyCol, [i \in DOMAIN rfm |-> rfm[i].f_score])
        /\ nunique(MonetaryCol) >= 5 =>
              RankedQuantileScoring(MonetaryCol, [i \in DOMAIN rfm |-> rfm[i].m_score])

\* the quintile edges of the raw frequency and of the raw monetary values
\* repeat, those of recency too, and only recency is scored by equal width
C24_Witness ==
    /\ Scored
    /\ nunique(FrequencyCol) >= 5 /\ QuantileEdgesRepeat(FrequencyCol)
    /\ nunique(MonetaryCol) >= 5 /\ QuantileEdgesRepeat(MonetaryCol)
    /\ nunique(RecencyCol) >= 5 /\ QuantileEdgesRepeat(RecencyCol)
    /\ {rfm[i].r_score : i \in DOMAIN rfm} # 1..5
    /\ {rfm[i].f_score : i \in DOMAIN rfm} = 1..5
    /\ {rfm[i].m_score : i \in DOMAIN rfm} = 1..5

----------------------------------------------------------------------------
(* The on-time percentage *)

\* actual minus estimated delivery time of an order row, in time units
Delta(o) == o.order_delivered_customer_date - o.order_estimated_delivery_date

\* the classified orders whose delta, floored to whole days, is at most 0:
\* those delivered less than a day after the estimate, or before it
OnTimeOrders == {i \in Classifiable : Delta(orders[i]) < DayLen}

\* the count of a status bucket of the summary
BucketCount(status) ==
    LET k == CHOOSE j \in DOMAIN delivery.delivery_summary :
                 delivery.delivery_summary[j].delivery_status = status
    IN  delivery.delivery_summary[k].count

(* C25: the on-time percentage and the status buckets agree.  The delta is
   the floor of (actual - estimated) in whole days; the on-time percentage is
   the share of the classified orders with delta <= 0, which is the combined
   share of the Very Early, Early and On Time buckets; so an order delivered
   after its estimated date by less than 24 hours has delta 0, is On Time and
   counts as on time. *)
C25_OnTimeAgreesWithBuckets ==
    (page = "rendered" /\ delivery.shown = "charts") =>
        LET pct == delivery.on_time_percentage
            n == Cardinality(Classifiable)
            early == BucketCount("Very Early") + BucketCount("Early")
                         + BucketCount("On Time")
        IN  /\ n > 0
            /\ pct.kind = "number"
            /\ pct.num * n = 100 * Cardinality(OnTimeOrders) * pct.den
            /\ pct.num * n = 100 * early * pct.den
            /\ \A k \in DOMAIN delivery.delivery_data :
                  LET row == delivery.delivery_data[k]
                      o == orders[CHOOSE i \in Classifiable :
                                      orders[i].order_id = row.order_id]
                  IN  /\ row.delivery_difference * DayLen <= Delta(o)
                      /\ Delta(o) < (row.delivery_difference + 1) * DayLen
                      /\ (Delta(o) > 0 /\ Delta(o) < DayLen) =>
                            /\ row.delivery_difference = 0
                            /\ row.delivery_status = "On Time"

\* one order came less than a day after its estimate, another came late by
\* whole days, a third came early
C25_Witness ==
    /\ page = "rendered"
    /\ delivery.shown = "charts"
    /\ \E i \in Classifiable : Delta(orders[i]) > 0 /\ Delta(orders[i]) < DayLen
    /\ \E i \in Classifiable : Delta(orders[i]) >= DayLen
    /\ \E i \in Classifiable : Delta(orders[i]) < 0
    /\ delivery.on_time_percentage.num > 0
    /\ delivery.on_time_percentage.num < 100 * delivery.on_time_percentage.den

----------------------------------------------------------------------------
(* What the category and the state selection reach *)

\* a section without its ranking, whose order among rows of equal sum is
\* the sort's choice
Unranked(section) == [section EXCEPT !.top_categories = <<>>]

(* C26: the category and the state selection do not influence the sections
   that do not apply them.  From one run to the next over the same dataset
   and the same date window, whatever the two selections were and become,
   the RFM records and segments, the payments section and the delivery
   section are identical; a run that keeps the category shows the same sales
   section, and a run that keeps the state the same geographic section. *)
C26_SelectionsDoNotLeak ==
    [][(start_date' = start_date /\ end_date' = end_date) =>
          /\ rfm' = rfm /\ rfm_shown' = rfm_shown /\ rfm_orders' = rfm_orders
          /\ payments' = payments
          /\ delivery' = delivery
          /\ selected_category' = selected_category =>
                Unranked(sales') = Unranked(sales)
          /\ selected_state' = selected_state =>
                Unranked(regional') = Unranked(regional)]_vars

\* a category and a state are selected and both restrict their own section,
\* while the RFM table, the payments and the deliveries cover other
\* categories and states too
C26_Witness ==
    /\ page = "rendered"
    /\ selected_category # None
    /\ selected_state # None
    /\ Len(sales.filtered_items) < Len(DateFilteredItems)
    /\ Len(regional.state_orders) < Len(sales.filtered_orders)
    /\ Len(payments.filtered_orders_payment) > Len(regional.state_orders)
    /\ payments.payment_summary # <<>>
    /\ rfm # <<>>
    /\ delivery.shown = "charts"
    /\ Len(delivery.delivery_data) > Len(regional.state_orders)

----------------------------------------------------------------------------
(* The two ends of the date window *)

\* the order ids of a frame of order rows or of item rows
Ids(rows) == {rows[k].order_id : k \in DOMAIN rows}

\* the order ids that any section of the page has kept
KeptIds ==
    Ids(sales.filtered_orders) \cup Ids(sales.filtered_items) \cup Ids(rfm_orders)
    \cup Ids(payments.filtered_orders_payment) \cup Ids(delivery.filtered)
    \cup Ids(delivery.delivery_data) \cup Ids(regional.state_orders)

(* C27: with a custom date range both bounds are the midnight instants at
   the start of the chosen calendar dates, so an order purchased on the
   chosen end date after 00:00:00 (or later) lies outside the window and is
   kept by no section; with a preset range the end bound is the latest
   purchase timestamp of the dataset, and the latest order is kept by every
   section whose other filters it passes. *)
C27_CustomBoundsAtMidnight ==
    page = "rendered" =>
        /\ date_option = "Kustom" =>
              /\ start_date % DayLen = 0 /\ end_date % DayLen = 0
              /\ \A i \in DOMAIN orders :
                    (/\ orders[i].order_purchase_timestamp # NaT
                     /\ orders[i].order_purchase_timestamp > end_date) =>
                        orders[i].order_id \notin KeptIds
        /\ date_option # "Kustom" =>
              /\ end_date = max_date(orders)
              /\ \A i \in DOMAIN orders :
                    (/\ orders[i].order_purchase_timestamp # NaT
                     /\ orders[i].order_purchase_timestamp = max_date(orders)) =>
                        /\ orders[i].order_id \in Ids(sales.filtered_orders)
                        /\ orders[i].order_id \in Ids(payments.filtered_orders_payment)
                        /\ Delivered(orders[i]) =>
                              /\ orders[i].order_id \in Ids(rfm_orders)
                              /\ orders[i].order_id \in Ids(delivery.filtered)
                        /\ OfSelectedState(orders[i]) =>
                              orders[i].order_id \in Ids(regional.state_orders)

\* the end date is a day on which one order was placed at midnight and
\* another later: the first is kept, the second is not
C27_Witness ==
    /\ page = "rendered"
    /\ date_option = "Kustom"
    /\ start_date < end_date
    /\ \E i, j \in DOMAIN orders :
          /\ orders[i].order_purchase_timestamp = end_date
          /\ orders[i].order_id \in Ids(sales.filtered_orders)
          /\ orders[j].order_purchase_timestamp > end_date
          /\ orders[j].order_purchase_timestamp < end_date + DayLen
          /\ orders[j].order_id \notin KeptIds

====
